---- MODULE Spec2Model ----
(***************************************************************************)
(* Model of the venue store of src/app.py: the Venue table, the Database   *)
(* class (update_venue, filter_venues, get_statistics,                     *)
(* get_ward_statistics, import_from_csv) and the callers of the store.     *)
(*                                                                         *)
(* Encoding.  A nullable value (a Python value that may be None, a column  *)
(* that may hold SQL NULL) is the empty tuple when absent and the          *)
(* one-element tuple <<x>> when present.  Ratings are in tenths of a star  *)
(* (4.5 is 45).  Timestamps are readings of the clock `now`.  A CSV cell   *)
(* as DataFrame.iterrows hands it to the code is a record: kind "none"     *)
(* (the file has no such column, row.get gives None), "nan" (empty cell),  *)
(* "str" (text) or "num" (a number).  st.session_state is read only by     *)
(* .get(key, False), so it is the set of the keys whose value is True; the *)
(* key f'editing_{id}' is the pair <<"editing", id>>.                       *)
(***************************************************************************)
EXTENDS Integers, Sequences, FiniteSets, TLC

VARIABLES venues,   \* the rows of table `venues`, in id order
          now,      \* the clock read by datetime.utcnow() / datetime.now()
          result,   \* the last call of the store: its name, arguments and outcome
          session_state  \* the keys of st.session_state that hold True

vars == <<venues, now, result, session_state>>

----------------------------------------------------------------------------
(* Bounds of the model *)

MaxVenues == 2
MaxRows == 2
MaxClock == 1
MaxFilterVenues == 2
MaxStatVenues == 3
MaxExportVenues == 2

----------------------------------------------------------------------------
(* Values *)

None == <<>>
Some(x) == <<x>>

NoneCell == [kind |-> "none"]
NaN == [kind |-> "nan"]
Str(s) == [kind |-> "str", val |-> s]
Num(n) == [kind |-> "num", val |-> n]
Bool(b) == [kind |-> "bool", val |-> b]

\* pd.notna(cell)
notna(cell) == cell.kind \notin {"none", "nan"}

\* The value a cell is stored as when it is bound to a column: None and the
\* float NaN are both stored as NULL by SQLite.
bind(cell) == IF notna(cell) THEN Some(cell.val) ELSE None

\* float(cell) raises ValueError on text that is no number
float_raises(cell) == cell.kind = "str"

\* Python truthiness of an optional string / an optional number
truthy_str(x) == x # None /\ x # Some("")
truthy_num(x) == x # None /\ x # Some(0)

\* SQL `column = value`: true only when both sides are non-NULL and equal
sql_eq(col, val) == col # None /\ val # None /\ col = val

\* SQL `column >= value`
sql_ge(col, val) == col # None /\ val # None /\ col[1] >= val[1]

----------------------------------------------------------------------------
(* class Venue: the columns of table `venues` that the store's operations  *)
(* read or write.  The remaining columns are copied from the CSV row by    *)
(* import_from_csv like search_ward and read by no operation of the store. *)

Columns == {"id", "google_place_id", "search_ward", "search_postcode_sector",
            "amenity", "cuisine", "google_rating", "business_status",
            "google_vicinity", "address", "google_phone", "phone",
            "google_website", "website",
            "visited", "visit_date", "interest_status", "is_priority", "notes",
            "created_at", "updated_at"}

\* Venue(...) as INSERTed: the columns not given take their defaults
\* (visited and is_priority False, created_at and updated_at utcnow, the
\* others NULL); the id is the next rowid of the table.
Venue(kwargs, id, t) ==
    [c \in Columns |->
        IF c = "id" THEN id
        ELSE IF c \in DOMAIN kwargs THEN kwargs[c]
        ELSE IF c \in {"visited", "is_priority"} THEN FALSE
        ELSE IF c \in {"created_at", "updated_at"} THEN t
        ELSE None]

Ids(vs) == {vs[i].id : i \in DOMAIN vs}

\* session.query(Venue).all(): every row of the table
get_all_venues(vs) == vs

\* google_place_id = Column(String, unique=True): would row `v` break the
\* constraint in a table holding `others`?  NULL never collides.
unique_violation(others, v) ==
    \E i \in DOMAIN others : sql_eq(others[i].google_place_id, v.google_place_id)

----------------------------------------------------------------------------
(* Database.get_venue_by_id: the index of the row, or None *)

get_venue_by_id_unfiltered(vs, venue_id) ==
    IF vs # <<>> THEN Some(1) ELSE None

get_venue_by_id(vs, venue_id) ==
    IF \E i \in DOMAIN vs : vs[i].id = venue_id
    THEN Some(CHOOSE i \in DOMAIN vs : vs[i].id = venue_id)
    ELSE None

----------------------------------------------------------------------------
(* Database.update_venue(venue_id, updates) at time t.                     *)
(* Outcome: the table afterwards, the value returned, and the exception    *)
(* that leaves the call, "" when there is none.                            *)

\* for key, value in updates.items(): setattr(venue, key, value);
\* venue.updated_at = datetime.utcnow()
setattrs_stale(v, updates, t) ==
    [c \in Columns |-> IF c \in DOMAIN updates THEN updates[c] ELSE v[c]]

setattrs_touching_created(v, updates, t) ==
    [c \in Columns |->
        IF c \in {"created_at", "updated_at"} THEN t
        ELSE IF c \in DOMAIN updates THEN updates[c]
        ELSE v[c]]

setattrs(v, updates, t) ==
    [c \in Columns |->
        IF c = "updated_at" THEN t
        ELSE IF c \in DOMAIN updates THEN updates[c]
        ELSE v[c]]

update_venue(vs, venue_id, updates, t) ==
    LET found == get_venue_by_id(vs, venue_id) IN
    IF found = None
    THEN [venues |-> vs, returned |-> None, raised |-> ""]
    ELSE LET i == found[1]
             v == setattrs(vs[i], updates, t)
             rest == [j \in 1..(Len(vs) - 1) |-> IF j < i THEN vs[j] ELSE vs[j + 1]]
         IN  \* session.commit(): the UPDATE fails on the unique constraint
             \* and the transaction is rolled back
             IF unique_violation(rest, v)
             THEN [venues |-> vs, returned |-> None, raised |-> "IntegrityError"]
             ELSE [venues |-> [vs EXCEPT ![i] = v], returned |-> Some(v), raised |-> ""]

----------------------------------------------------------------------------
(* Database.import_from_csv(df) at time t.  A row of df is a record of     *)
(* cells, one per column of the file that the model follows.               *)

\* existing = session.query(Venue).filter(
\*     Venue.google_place_id == row.get('google_place_id')).first()
\* A comparison with None is rendered IS NULL; any other value is bound to
\* `google_place_id = ?`, the float NaN of an empty cell as NULL, which no
\* row equals.
existing_never(vs, cell) == FALSE
existing(vs, cell) ==
    IF cell.kind = "none"
    THEN \E i \in DOMAIN vs : vs[i].google_place_id = None
    ELSE \E i \in DOMAIN vs : sql_eq(vs[i].google_place_id, bind(cell))

\* Venue(...) of lines 178-218 raises when float() is given text that is no
\* number
construction_raises(row) == notna(row.google_rating) /\ float_raises(row.google_rating)

\* the keyword arguments of Venue(...) of lines 178-218
copied_kwargs(row) ==
    [google_place_id        |-> bind(row.google_place_id),
     search_ward            |-> bind(row.search_ward),
     search_postcode_sector |-> bind(row.search_postcode_sector),
     amenity                |-> bind(row.amenity),
     cuisine                |-> bind(row.cuisine),
     google_rating          |-> IF notna(row.google_rating)
                                THEN Some(row.google_rating.val) ELSE None,
     business_status        |-> bind(row.business_status),
     google_vicinity        |-> bind(row.google_vicinity),
     address                |-> bind(row.address),
     google_phone           |-> bind(row.google_phone),
     phone                  |-> bind(row.phone),
     google_website         |-> bind(row.google_website),
     website                |-> bind(row.website)]

\* no survey column is among them
venue_kwargs_with_survey(row) ==
    LET copied == copied_kwargs(row)
        survey ==
            [visited         |-> IF notna(row.visited) THEN row.visited.val ELSE FALSE,
             visit_date      |-> bind(row.visit_date),
             interest_status |-> bind(row.interest_status),
             is_priority     |-> IF notna(row.is_priority) THEN row.is_priority.val ELSE FALSE,
             notes           |-> bind(row.notes)]
    IN [c \in DOMAIN copied \cup DOMAIN survey |->
            IF c \in DOMAIN survey THEN survey[c] ELSE copied[c]]

venue_kwargs(row) == copied_kwargs(row)

\* One pass of the loop body.  The session autoflushes before every query,
\* so a venue added by an earlier row of the same file is found by the
\* lookup of a later row; the INSERT therefore never meets the unique
\* constraint.
import_row_counting_skipped(acc, row, t) ==
    IF existing(acc.venues, row.google_place_id)
    THEN [acc EXCEPT !.count = @ + 1]
    ELSE IF construction_raises(row)
    THEN [acc EXCEPT !.errors = @ + 1]
    ELSE [acc EXCEPT !.venues = Append(@, Venue(venue_kwargs(row), Len(@) + 1, t)),
                     !.count = @ + 1]

import_row(acc, row, t) ==
    IF existing(acc.venues, row.google_place_id)
    THEN acc
    ELSE IF construction_raises(row)
    THEN [acc EXCEPT !.errors = @ + 1]
    ELSE [acc EXCEPT !.venues = Append(@, Venue(venue_kwargs(row), Len(@) + 1, t)),
                     !.count = @ + 1]

\* for _, row in df.iterrows(): the loop goes on after a row that raised
RECURSIVE import_rows_aborting(_, _, _)
import_rows_aborting(acc, rows, t) ==
    IF rows = <<>> \/ acc.errors > 0 THEN acc
    ELSE import_rows_aborting(import_row(acc, Head(rows), t), Tail(rows), t)

RECURSIVE import_rows(_, _, _)
import_rows(acc, rows, t) ==
    IF rows = <<>> THEN acc
    ELSE import_rows(import_row(acc, Head(rows), t), Tail(rows), t)

import_from_csv(vs, df, t) ==
    import_rows([venues |-> vs, count |-> 0, errors |-> 0], df, t)

----------------------------------------------------------------------------
(* Database.filter_venues.  `args` maps the names of the keyword           *)
(* arguments the caller passes to their values; a parameter that is not    *)
(* passed takes the default of the signature.                              *)

Param(args, name, default) == IF name \in DOMAIN args THEN args[name] ELSE default

\* if business_status: query.filter(Venue.business_status == business_status)
by_business_status_collapsed(v, business_status) ==
    sql_eq(v.business_status,
           IF truthy_str(business_status) THEN business_status ELSE Some("OPERATIONAL"))

by_business_status(v, business_status) ==
    truthy_str(business_status) => sql_eq(v.business_status, business_status)

\* if x and x != "All": query.filter(column == x), for ward, postcode_sector,
\* amenity and cuisine
by_name_no_sentinel(col, x) == truthy_str(x) => sql_eq(col, x)

by_name(col, x) == (truthy_str(x) /\ x # Some("All")) => sql_eq(col, x)

\* if min_rating and min_rating > 0: query.filter(Venue.google_rating >= min_rating)
by_min_rating_strict(v, min_rating) ==
    (truthy_num(min_rating) /\ min_rating[1] > 0)
        => (sql_ge(v.google_rating, min_rating) /\ v.google_rating # min_rating)

by_min_rating(v, min_rating) ==
    (truthy_num(min_rating) /\ min_rating[1] > 0) => sql_ge(v.google_rating, min_rating)

\* if visited is not None: query.filter(Venue.visited == visited)
by_visited(v, visited) == visited # None => v.visited = visited[1]

\* if interest_status: query.filter(Venue.interest_status == interest_status)
by_interest_status(v, interest_status) ==
    truthy_str(interest_status) => sql_eq(v.interest_status, interest_status)

filter_venues(vs, args) ==
    LET keep(v) ==
            /\ by_business_status(v, Param(args, "business_status", Some("OPERATIONAL")))
            /\ by_name(v.search_ward, Param(args, "ward", None))
            /\ by_name(v.search_postcode_sector, Param(args, "postcode_sector", None))
            /\ by_name(v.amenity, Param(args, "amenity", None))
            /\ by_name(v.cuisine, Param(args, "cuisine", None))
            /\ by_min_rating(v, Param(args, "min_rating", None))
            /\ by_visited(v, Param(args, "visited", None))
            /\ by_interest_status(v, Param(args, "interest_status", None))
    IN SelectSeq(vs, keep)

----------------------------------------------------------------------------
(* Database.get_statistics and Database.get_ward_statistics *)

\* the filters of the counting queries
is_visited(v) == v.visited = TRUE
is_interested(v) == sql_eq(v.interest_status, Some("interested"))
is_not_interested(v) == sql_eq(v.interest_status, Some("not_interested"))

\* session.query(Venue).filter(...).count()
count_visited(vs) == Len(SelectSeq(vs, is_visited))
count_interested(vs) == Len(SelectSeq(vs, is_interested))
count_not_interested(vs) == Len(SelectSeq(vs, is_not_interested))

\* (interested / visited * 100) if visited > 0 else 0.  The quotient is kept
\* as the fraction num/den; a division by zero raises ZeroDivisionError.
conversion_rate_unguarded(interested, visited) ==
    IF visited # 0
    THEN [raised |-> "", num |-> interested * 100, den |-> visited]
    ELSE [raised |-> "ZeroDivisionError", num |-> 0, den |-> 1]

conversion_rate(interested, visited) ==
    IF visited > 0
    THEN [raised |-> "", num |-> interested * 100, den |-> visited]
    ELSE [raised |-> "", num |-> 0, den |-> 1]

get_statistics_operational(vs) ==
    LET total == Len(SelectSeq(vs, LAMBDA v : v.business_status = Some("OPERATIONAL")))
        visited == count_visited(vs)
        interested == count_interested(vs)
    IN [total |-> total, visited |-> visited, not_visited |-> total - visited,
        interested |-> interested, not_interested |-> count_not_interested(vs),
        conversion_rate |-> conversion_rate(interested, visited)]

get_statistics(vs) ==
    LET total == Len(vs)
        visited == count_visited(vs)
        interested == count_interested(vs)
    IN [total |-> total, visited |-> visited, not_visited |-> total - visited,
        interested |-> interested, not_interested |-> count_not_interested(vs),
        conversion_rate |-> conversion_rate(interested, visited)]

\* SELECT search_ward, count(id), sum(case ...), ... GROUP BY search_ward:
\* one row per value of search_ward, NULL being a group of its own
ward_row(vs, ward) ==
    LET in_ward(v) == v.search_ward = ward
        group == SelectSeq(vs, in_ward)
    IN [search_ward |-> ward, total |-> Len(group),
        visited |-> count_visited(group),
        interested |-> count_interested(group),
        not_interested |-> count_not_interested(group)]

ward_rows_without_null(vs) ==
    {ward_row(vs, vs[i].search_ward) : i \in {j \in DOMAIN vs : vs[j].search_ward # None}}

ward_rows(vs) == {ward_row(vs, vs[i].search_ward) : i \in DOMAIN vs}

\* ORDER BY count(id) DESC
order_by_total_asc(rows) ==
    \A i, j \in DOMAIN rows : i < j => rows[i].total <= rows[j].total

order_by_total_desc(rows) ==
    \A i, j \in DOMAIN rows : i < j => rows[i].total >= rows[j].total

\* The results the query may give: SQL leaves the order of rows of equal
\* total open.
get_ward_statistics(vs) ==
    LET rows == ward_rows(vs)
        n == Cardinality(rows)
    IN {s \in [1..n -> rows] :
            /\ \A i, j \in 1..n : i # j => s[i] # s[j]
            /\ order_by_total_desc(s)}

----------------------------------------------------------------------------
(* The Export page.  Of the columns of the file, those are followed that   *)
(* are computed from the fields of the model; the others (Name, Postcode,  *)
(* Total Reviews, Price Level, Latitude, Longitude, Data Source) are       *)
(* copies of one field each.                                               *)

ExportTypes ==
    {"All Venues", "Hot Leads (Interested Only)", "Not Interested", "Not Visited",
     "Visited (All)", "Custom Filter"}

\* the entries of the select boxes of "Custom Filter":
\* ["All"] + sorted(set(v.search_ward for v in all_db_venues if v.search_ward))
custom_options(vs, column) ==
    {"All"} \cup {vs[i][column][1] : i \in {j \in DOMAIN vs : truthy_str(vs[j][column])}}

\* export_venues of lines 895-912
export_selection(vs, export_type, custom_ward, custom_amenity) ==
    CASE export_type = "All Venues" -> get_all_venues(vs)
      [] export_type = "Hot Leads (Interested Only)" ->
             filter_venues(vs, [interest_status |-> Some("interested")])
      [] export_type = "Not Interested" ->
             filter_venues(vs, [interest_status |-> Some("not_interested")])
      [] export_type = "Not Visited" -> filter_venues(vs, [visited |-> Some(FALSE)])
      [] export_type = "Visited (All)" -> filter_venues(vs, [visited |-> Some(TRUE)])
      [] OTHER ->
             filter_venues(vs,
                 [ward    |-> IF custom_ward # "All" THEN Some(custom_ward) ELSE None,
                  amenity |-> IF custom_amenity # "All" THEN Some(custom_amenity) ELSE None])

\* Python's `a or b` on optional strings
py_or_swapped(a, b) == IF truthy_str(b) THEN b ELSE a

py_or(a, b) == IF truthy_str(a) THEN a ELSE b

\* v.visit_date.strftime('%Y-%m-%d %H:%M:%S') if v.visit_date else None
strftime(visit_date) ==
    IF visit_date # None
    THEN Some([format |-> "%Y-%m-%d %H:%M:%S", of |-> visit_date[1]])
    ELSE None

ExportHeader ==
    << "ID", "Type", "Cuisine", "Ward", "Postcode Sector", "Address", "Phone",
       "Website", "Rating", "Business Status", "Visited", "Visit Date",
       "Interest Status", "Priority", "Notes" >>

\* one row of export_df
export_row(v) ==
    [ID |-> v.id, Type |-> v.amenity, Cuisine |-> v.cuisine, Ward |-> v.search_ward,
     PostcodeSector |-> v.search_postcode_sector,
     Address |-> py_or(v.google_vicinity, v.address),
     Phone |-> py_or(v.google_phone, v.phone),
     Website |-> py_or(v.google_website, v.website),
     Rating |-> v.google_rating, BusinessStatus |-> v.business_status,
     Visited |-> v.visited, VisitDate |-> strftime(v.visit_date),
     InterestStatus |-> v.interest_status, Priority |-> v.is_priority,
     Notes |-> v.notes]

\* `if export_venues:` the file is built and st.download_button offers it;
\* else only st.warning is shown
export_page(export_venues) ==
    IF export_venues # <<>>
    THEN [download |-> Some([header |-> ExportHeader,
                             rows |-> [i \in DOMAIN export_venues |->
                                          export_row(export_venues[i])]]),
          message |-> "success"]
    ELSE [download |-> None, message |-> "warning"]

----------------------------------------------------------------------------
(* calculate_distance.  Coordinates are whole degrees, multiples of 90, for *)
(* which the terms of the Haversine formula are exact: a is kept in halves, *)
(* the angle c in quarter turns, the result in hundredths of a mile.        *)

\* R = 3959  # Earth radius in miles
R == 3959

\* all([...]): every element is truthy; None and 0 are not
all(xs) == \A i \in DOMAIN xs : truthy_num(xs[i])

\* math.sin(d / 2) ** 2 of d degrees, in halves
sin_half_squared(d) ==
    LET m == d % 360 IN
    CASE m = 0 -> 0
      [] m \in {90, 270} -> 1
      [] m = 180 -> 2

\* math.cos of a latitude
cos(lat) == IF lat = 0 THEN 1 ELSE 0

\* 2 * math.asin(math.sqrt(a)) in quarter turns, of a in halves
two_asin_sqrt(a) ==
    CASE a = 0 -> 0
      [] a = 1 -> 1
      [] a = 2 -> 2

\* round(R * c, 2) in hundredths, of c in quarter turns (pi / 2 = 1.5707963)
round_miles(c) == R * c * 157 + (R * c * 79633 + 500000) \div 1000000

calculate_distance(lat1, lon1, lat2, lon2) ==
    IF ~all(<<lat1, lon1, lat2, lon2>>)
    THEN None
    ELSE LET dlat == lat2[1] - lat1[1]
             dlon == lon2[1] - lon1[1]
             a == sin_half_squared(dlat)
                      + cos(lat1[1]) * cos(lat2[1]) * sin_half_squared(dlon)
             c == two_asin_sqrt(a)
         IN Some(round_miles(c))

----------------------------------------------------------------------------
(* Inputs *)

\* The rows of the files that are imported.  The files also have columns
\* named like the survey fields; `survey` holds their cells.
CsvRow(id, ward, rating, status, contact, survey) ==
    [google_place_id |-> id, search_ward |-> ward,
     search_postcode_sector |-> NaN, amenity |-> NaN, cuisine |-> NaN,
     google_rating |-> rating, business_status |-> status,
     google_vicinity |-> contact.google_vicinity, address |-> contact.address,
     google_phone |-> contact.google_phone, phone |-> contact.phone,
     google_website |-> contact.google_website, website |-> contact.website,
     visited |-> survey.visited, visit_date |-> survey.visit_date,
     interest_status |-> survey.interest_status,
     is_priority |-> survey.is_priority, notes |-> survey.notes]

\* contact columns of a venue known to both sources, and left empty
ContactFilled ==
    [google_vicinity |-> Str("1 The Mall, Bristol"), address |-> Str("1 The Mall"),
     google_phone |-> Str("0117 496 0001"), phone |-> NaN,
     google_website |-> NaN, website |-> Str("https://one.example")]

ContactEmpty ==
    [google_vicinity |-> NaN, address |-> NaN, google_phone |-> NaN, phone |-> NaN,
     google_website |-> NaN, website |-> NaN]

\* survey columns that are filled in, and left empty
SurveyFilled ==
    [visited |-> Bool(TRUE), visit_date |-> Str("2024-05-01 12:00:00"),
     interest_status |-> Str("interested"), is_priority |-> Bool(TRUE),
     notes |-> Str("keen")]

SurveyEmpty ==
    [visited |-> NaN, visit_date |-> NaN, interest_status |-> NaN,
     is_priority |-> NaN, notes |-> NaN]

CsvRows ==
    {CsvRow(Str("ChIJ-1"), Str("Clifton"), Num(45), Str("OPERATIONAL"),
            ContactEmpty, SurveyFilled),
     CsvRow(Str("ChIJ-2"), NaN, NaN, Str("CLOSED_PERMANENTLY"), ContactFilled, SurveyEmpty),
     \* text where a number is expected
     CsvRow(Str("ChIJ-2"), Str("Clifton"), Str("n/a"), Str("OPERATIONAL"),
            ContactEmpty, SurveyEmpty),
     \* an empty identity cell
     CsvRow(NaN, Str("Clifton"), Num(45), Str("OPERATIONAL"), ContactEmpty, SurveyEmpty)}

\* rows of a file without a google_place_id column
CsvRowsNoId ==
    {CsvRow(NoneCell, Str("Clifton"), Num(45), Str("OPERATIONAL"),
            ContactEmpty, SurveyFilled)}

SeqsUpTo(S, n) == UNION {[1..k -> S] : k \in 0..n}

CsvFiles == SeqsUpTo(CsvRows, MaxRows) \cup SeqsUpTo(CsvRowsNoId, MaxRows)

\* the dictionaries update_venue is called with, at time t: that of the
\* Mark-as-Visited form, that of Reset All Survey Data, and assignments of
\* the identity column
MarkVisitedUpdates(t) ==
    {[visited |-> TRUE, visit_date |-> Some(t), interest_status |-> Some("interested"),
      notes |-> Some("call back")]}

ResetUpdates_keeping_visit_date ==
    [visited |-> FALSE, interest_status |-> None, is_priority |-> FALSE, notes |-> None]

ResetUpdates ==
    [visited |-> FALSE, visit_date |-> None, interest_status |-> None,
     is_priority |-> FALSE, notes |-> None]

IdentityUpdates == {[google_place_id |-> Some("ChIJ-1")], [google_place_id |-> None]}

Updates(t) == MarkVisitedUpdates(t) \cup {ResetUpdates} \cup IdentityUpdates

\* Tables that filter_venues is applied to: venues as imports and updates
\* leave them, taken in id order from the kinds below
SurveyedVenue(ward, sector, amenity, cuisine, rating, status, visited, interest) ==
    [search_ward |-> ward, search_postcode_sector |-> sector, amenity |-> amenity,
     cuisine |-> cuisine, google_rating |-> rating, business_status |-> status,
     visited |-> visited, visit_date |-> IF visited THEN Some(0) ELSE None,
     interest_status |-> interest]

FilterKinds ==
    << SurveyedVenue(Some("Clifton"), Some("BS8 1"), Some("restaurant"), Some("italian"),
                     Some(45), Some("OPERATIONAL"), TRUE, Some("interested")),
       SurveyedVenue(Some("Clifton"), Some("BS8 1"), Some("cafe"), None,
                     Some(30), Some("OPERATIONAL"), FALSE, None),
       SurveyedVenue(Some("Redland"), Some("BS6 6"), Some("restaurant"), Some("italian"),
                     Some(48), Some("CLOSED_PERMANENTLY"), TRUE, Some("not_interested")),
       SurveyedVenue(None, None, None, None, None, None, FALSE, None),
       SurveyedVenue(Some("Clifton"), Some("BS8 1"), Some("cafe"), Some("italian"),
                     None, Some("OPERATIONAL"), TRUE, None),
       SurveyedVenue(Some("Redland"), Some("BS8 1"), Some("cafe"), None,
                     Some(45), Some("OPERATIONAL"), FALSE, Some("interested")) >>

Table(kinds) == [i \in DOMAIN kinds |-> Venue(kinds[i], i, 0)]

FilterTables ==
    {Table([i \in DOMAIN s |-> FilterKinds[s[i]]]) :
        s \in {t \in SeqsUpTo(DOMAIN FilterKinds, MaxFilterVenues) :
                  \A i, j \in DOMAIN t : i < j => t[i] < t[j]}}

\* The keyword arguments of a call of filter_venues: each parameter is left
\* out or passed one of the values the pages pass
Opt(S) == {{}} \cup {{x} : x \in S}

FilterChoices ==
    [ward            : Opt({None, Some("All"), Some("Clifton")}),
     postcode_sector : Opt({Some("All"), Some("BS8 1")}),
     amenity         : Opt({Some("All"), Some("cafe")}),
     cuisine         : Opt({Some("All"), Some("italian")}),
     min_rating      : Opt({Some(0), Some(45)}),
     visited         : Opt({Some(TRUE), Some(FALSE)}),
     interest_status : Opt({Some("interested"), Some("not_interested")}),
     business_status : Opt({None, Some("OPERATIONAL"), Some("CLOSED_PERMANENTLY")})]

Passed(choice) ==
    [p \in {q \in DOMAIN choice : choice[q] # {}} |-> CHOOSE x \in choice[p] : TRUE]

FilterArgs == {Passed(choice) : choice \in FilterChoices}

\* Tables that the statistics are taken of
StatKinds ==
    {[search_ward |-> w, business_status |-> Some(b), visited |-> sv[1],
      visit_date |-> IF sv[1] THEN Some(0) ELSE None, interest_status |-> sv[2]] :
        w \in {Some("Clifton"), Some("Redland"), None},
        b \in {"OPERATIONAL", "CLOSED_PERMANENTLY"},
        sv \in {<<FALSE, None>>, <<TRUE, Some("interested")>>,
                <<TRUE, Some("not_interested")>>, <<FALSE, Some("interested")>>}}

StatTables == {Table(kinds) : kinds \in SeqsUpTo(StatKinds, MaxStatVenues)}

\* Tables that are exported: venues with and without the contact details of
\* either source, not visited or visited
Sourced(google, local) ==
    {<<None, None>>, <<Some(google), None>>, <<None, Some(local)>>,
     <<Some(google), Some(local)>>}

ExportKinds ==
    {[search_ward |-> Some("Clifton"), amenity |-> Some("cafe"),
      business_status |-> Some("OPERATIONAL"),
      google_vicinity |-> a[1], address |-> a[2],
      google_phone |-> p[1], phone |-> p[2],
      google_website |-> w[1], website |-> w[2],
      visited |-> sv[1], visit_date |-> IF sv[1] THEN Some(0) ELSE None,
      interest_status |-> sv[2]] :
        a \in Sourced("1 The Mall, Bristol", "1 The Mall"),
        p \in Sourced("0117 496 0001", "496 0001"),
        w \in {<<None, None>>, <<Some("https://maps.example/one"), Some("https://one.example")>>},
        sv \in {<<FALSE, None>>, <<TRUE, Some("interested")>>}}

ExportTables == {Table(kinds) : kinds \in SeqsUpTo(ExportKinds, MaxExportVenues)}

\* the coordinates calculate_distance is applied to, missing or present
Latitudes == {None} \cup {Some(d) : d \in {-90, 0, 90}}
Longitudes == {None} \cup {Some(d) : d \in {-180, -90, 0, 90, 180}}

----------------------------------------------------------------------------
(* The store as a state machine *)

Init ==
    /\ venues = <<>>
    /\ now = 0
    /\ result = [op |-> "init"]
    /\ session_state = {}

Tick ==
    /\ now < MaxClock
    /\ now' = now + 1
    /\ UNCHANGED <<venues, result, session_state>>

\* `again` tells that the call repeats the file of the call before it
ImportFromCsv ==
    \E df \in CsvFiles :
        LET r == import_from_csv(venues, df, now) IN
        /\ Len(r.venues) <= MaxVenues
        /\ venues' = r.venues
        /\ result' = [op |-> "import_from_csv", df |-> df, before |-> venues,
                      again |-> (result.op = "import_from_csv" /\ result.df = df),
                      count |-> r.count, errors |-> r.errors]
        /\ UNCHANGED <<now, session_state>>

UpdateVenue ==
    \E venue_id \in 1..(MaxVenues + 1), updates \in Updates(now) :
        LET r == update_venue(venues, venue_id, updates, now) IN
        /\ venues' = r.venues
        /\ result' = [op |-> "update_venue", venue_id |-> venue_id,
                      updates |-> updates, before |-> venues, at |-> now,
                      returned |-> r.returned, raised |-> r.raised]
        /\ UNCHANGED <<now, session_state>>

GetStatistics ==
    /\ result' = [op |-> "get_statistics", returned |-> get_statistics(venues)]
    /\ UNCHANGED <<venues, now, session_state>>

Next == Tick \/ ImportFromCsv \/ UpdateVenue \/ GetStatistics

Spec == Init /\ [][Next]_vars

----------------------------------------------------------------------------
(* filter_venues applied once to a table *)

FilterInit ==
    /\ venues \in FilterTables
    /\ now = 0
    /\ result = [op |-> "init"]
    /\ session_state = {}

FilterVenues ==
    \E args \in FilterArgs :
        /\ result' = [op |-> "filter_venues", args |-> args,
                      returned |-> filter_venues(venues, args)]
        /\ UNCHANGED <<venues, now, session_state>>

FilterNext == result.op = "init" /\ FilterVenues

FilterSpec == FilterInit /\ [][FilterNext]_vars

----------------------------------------------------------------------------
(* The statistics taken of a table *)

StatsInit ==
    /\ venues \in StatTables
    /\ now = 0
    /\ result = [op |-> "init"]
    /\ session_state = {}

GetWardStatistics ==
    \E rows \in get_ward_statistics(venues) :
        /\ result' = [op |-> "get_ward_statistics", returned |-> rows]
        /\ UNCHANGED <<venues, now, session_state>>

StatsNext == GetStatistics \/ GetWardStatistics

StatsSpec == StatsInit /\ [][StatsNext]_vars

----------------------------------------------------------------------------
(* The Export page applied to a table *)

ExportInit ==
    /\ venues \in ExportTables
    /\ now = 0
    /\ result = [op |-> "init"]
    /\ session_state = {}

ExportPage ==
    \E export_type \in ExportTypes,
       custom_ward \in custom_options(venues, "search_ward"),
       custom_amenity \in custom_options(venues, "amenity") :
        LET export_venues == export_selection(venues, export_type, custom_ward, custom_amenity)
            r == export_page(export_venues)
        IN  /\ export_type # "Custom Filter" => custom_ward = "All" /\ custom_amenity = "All"
            /\ result' = [op |-> "export", export_type |-> export_type,
                          custom_ward |-> custom_ward, custom_amenity |-> custom_amenity,
                          export_venues |-> export_venues,
                          download |-> r.download, message |-> r.message]
            /\ UNCHANGED <<venues, now, session_state>>

ExportNext == ExportPage

ExportSpec == ExportInit /\ [][ExportNext]_vars

----------------------------------------------------------------------------
(* calculate_distance applied to two points *)

CalculateDistance ==
    \E lat1 \in Latitudes, lon1 \in Longitudes, lat2 \in Latitudes, lon2 \in Longitudes :
        /\ result' = [op |-> "calculate_distance",
                      lat1 |-> lat1, lon1 |-> lon1, lat2 |-> lat2, lon2 |-> lon2,
                      returned |-> calculate_distance(lat1, lon1, lat2, lon2)]
        /\ UNCHANGED <<venues, now, session_state>>

DistanceNext == CalculateDistance

DistanceSpec == Init /\ [][DistanceNext]_vars

----------------------------------------------------------------------------
(* The pages that write to the store: the Venue List page with its two     *)
(* forms and the Settings page.  Every action is one run of the script,    *)
(* started by the click of a button.  AppSpec is the application as its    *)
(* user drives it: these pages and the pages that only read.  The clock    *)
(* stands still in AppSpec: of a timestamp, the properties stated of it    *)
(* read only whether it is null.                                           *)

\* the keyword arguments the Venue List page passes to filter_venues
VenueListArgs ==
    {[ward |-> ward, visited |-> status[1], interest_status |-> status[2]] :
        ward \in {None, Some("Clifton")},
        status \in {<<None, None>>, <<Some(FALSE), None>>, <<Some(TRUE), None>>,
                    <<None, Some("interested")>>, <<None, Some("not_interested")>>}}

\* the venues the page lists, for some choice of its filters
Listed(v) ==
    \E args \in VenueListArgs :
        LET shown == filter_venues(venues, args) IN \E i \in DOMAIN shown : shown[i] = v

\* the choices of the radio buttons and the texts of the notes areas
InterestChoices == {"Interested", "Not Interested"}
NotesTexts == {"call back"}

\* interest_choice.lower().replace(" ", "_")
lower_replace(choice) ==
    CASE choice = "Interested" -> "interested"
      [] choice = "Not Interested" -> "not_interested"

\* the page lists the venues that filter_venues returns
VenueListPage ==
    \E args \in VenueListArgs :
        /\ result' = [op |-> "venue_list", args |-> args,
                      returned |-> filter_venues(venues, args)]
        /\ UNCHANGED <<venues, now, session_state>>

\* if not venue.visited: the button "Mark as Visited" sets the flag
ClickMarkAsVisited ==
    \E i \in DOMAIN venues :
        /\ ~venues[i].visited
        /\ Listed(venues[i])
        /\ session_state' = session_state \cup {<<"marking_visited", venues[i].id>>}
        /\ result' = [op |-> "click_mark_as_visited", venue_id |-> venues[i].id]
        /\ UNCHANGED <<venues, now>>

\* the form is rendered while the flag is set; "Cancel" clears the flag
CancelMarkAsVisited ==
    \E i \in DOMAIN venues :
        /\ <<"marking_visited", venues[i].id>> \in session_state
        /\ Listed(venues[i])
        /\ session_state' = session_state \ {<<"marking_visited", venues[i].id>>}
        /\ result' = [op |-> "cancel_mark_as_visited", venue_id |-> venues[i].id]
        /\ UNCHANGED <<venues, now>>

\* "Save": update_venue with the four survey fields, then the flag is cleared
SaveMarkAsVisited ==
    \E i \in DOMAIN venues, interest_choice \in InterestChoices, notes \in NotesTexts :
        LET updates == [visited |-> TRUE, visit_date |-> Some(now),
                        interest_status |-> Some(lower_replace(interest_choice)),
                        notes |-> Some(notes)]
            r == update_venue(venues, venues[i].id, updates, now)
        IN  /\ <<"marking_visited", venues[i].id>> \in session_state
            /\ Listed(venues[i])
            /\ venues' = r.venues
            /\ session_state' = session_state \ {<<"marking_visited", venues[i].id>>}
            /\ result' = [op |-> "save_mark_as_visited", venue_id |-> venues[i].id]
            /\ UNCHANGED now

\* else: the button "Edit Status" sets the flag
ClickEditStatus ==
    \E i \in DOMAIN venues :
        /\ venues[i].visited
        /\ Listed(venues[i])
        /\ session_state' = session_state \cup {<<"editing", venues[i].id>>}
        /\ result' = [op |-> "click_edit_status", venue_id |-> venues[i].id]
        /\ UNCHANGED <<venues, now>>

CancelEditStatus ==
    \E i \in DOMAIN venues :
        /\ <<"editing", venues[i].id>> \in session_state
        /\ Listed(venues[i])
        /\ session_state' = session_state \ {<<"editing", venues[i].id>>}
        /\ result' = [op |-> "cancel_edit_status", venue_id |-> venues[i].id]
        /\ UNCHANGED <<venues, now>>

\* "Update": update_venue with interest_status and notes, then the flag is
\* cleared
UpdateEditStatus ==
    \E i \in DOMAIN venues, new_interest \in InterestChoices, new_notes \in NotesTexts :
        LET updates == [interest_status |-> Some(lower_replace(new_interest)),
                        notes |-> Some(new_notes)]
            r == update_venue(venues, venues[i].id, updates, now)
        IN  /\ <<"editing", venues[i].id>> \in session_state
            /\ Listed(venues[i])
            /\ venues' = r.venues
            /\ session_state' = session_state \ {<<"editing", venues[i].id>>}
            /\ result' = [op |-> "update_edit_status", venue_id |-> venues[i].id]
            /\ UNCHANGED now

\* for venue in db.get_all_venues(): db.update_venue(venue.id, {...}),
\* from the k-th venue on
reset_all_by_delete(vs, k, t) == <<>>

reset_first_only(vs, k, t) ==
    IF k > Len(vs) THEN vs
    ELSE update_venue(vs, get_all_venues(vs)[k].id, ResetUpdates, t).venues

RECURSIVE reset_all_survey_data(_, _, _)
reset_all_survey_data(vs, k, t) ==
    IF k > Len(vs) THEN vs
    ELSE reset_all_survey_data(update_venue(vs, get_all_venues(vs)[k].id, ResetUpdates, t).venues,
                               k + 1, t)

\* "Reset All Survey Data" of the Settings page
ResetAllSurveyData ==
    /\ venues' = reset_all_survey_data(venues, 1, now)
    /\ result' = [op |-> "reset_all_survey_data"]
    /\ UNCHANGED <<now, session_state>>

AppNext ==
    \/ ImportFromCsv
    \/ GetStatistics
    \/ ExportPage
    \/ VenueListPage
    \/ ClickMarkAsVisited
    \/ CancelMarkAsVisited
    \/ SaveMarkAsVisited
    \/ ClickEditStatus
    \/ CancelEditStatus
    \/ UpdateEditStatus
    \/ ResetAllSurveyData

AppSpec == Init /\ [][AppNext]_vars

----------------------------------------------------------------------------
(* Claims about import_from_csv and update_venue, checked under Spec *)

\* C1: importing a file again right after importing it imports nothing
\* (count 0) and leaves the table as the first import left it.
C1_ReimportImportsNothing ==
    (result.op = "import_from_csv" /\ result.again)
        => (result.count = 0 /\ venues = result.before)

\* C2: no two venues hold the same non-NULL google_place_id.
C2_PlaceIdUnique ==
    \A i, j \in DOMAIN venues :
        (i # j /\ venues[i].google_place_id # None)
            => venues[i].google_place_id # venues[j].google_place_id

\* an import of a file that names one google_place_id in two rows has added
\* one venue for it
C2_Witness ==
    /\ result.op = "import_from_csv"
    /\ result.before = <<>>
    /\ Len(result.df) = 2
    /\ result.df[1].google_place_id = result.df[2].google_place_id
    /\ result.df[1].google_place_id.kind = "str"
    /\ result.count = 1
    /\ Len(venues) = 1

\* C3: update_venue on an id that is not in the table returns None, raises
\* nothing and leaves the table as it was.
C3_UpdateUnknownId ==
    (result.op = "update_venue" /\ result.venue_id \notin Ids(result.before))
        => (result.returned = None /\ result.raised = "" /\ venues = result.before)

\* update_venue was called on a table with rows, with an id none of them has
C3_Witness ==
    /\ result.op = "update_venue"
    /\ result.before # <<>>
    /\ result.venue_id \notin Ids(result.before)

\* The effect C4 describes, for the row at index i of the table before
UpdateApplied(i) ==
    /\ result.raised = ""
    /\ DOMAIN venues = DOMAIN result.before
    /\ result.returned = Some(venues[i])
    /\ \A c \in DOMAIN result.updates : venues[i][c] = result.updates[c]
    /\ venues[i].updated_at = result.at
    /\ \A c \in Columns \ (DOMAIN result.updates \cup {"updated_at"}) :
           venues[i][c] = result.before[i][c]
    /\ \A j \in DOMAIN venues : j # i => venues[j] = result.before[j]

\* the update gives row i a google_place_id that another row holds
UpdateCollides(i) ==
    /\ "google_place_id" \in DOMAIN result.updates
    /\ result.updates.google_place_id # None
    /\ \E j \in DOMAIN result.before :
           j # i /\ result.before[j].google_place_id = result.updates.google_place_id

----------------------------------------------------------------------------
(* Claims about filter_venues, checked under FilterSpec.  The criteria are *)
(* stated here on the arguments of the recorded call.                      *)

\* the caller supplied criterion p
Given(p) == p \in DOMAIN result.args /\ result.args[p] # None

NameCriteria ==
    {<<"ward", "search_ward">>, <<"postcode_sector", "search_postcode_sector">>,
     <<"amenity", "amenity">>, <<"cuisine", "cuisine">>}

\* ward, postcode sector, amenity, cuisine: equal to the value supplied,
\* unless that value is "All"
MeetsNames(v) ==
    \A pc \in NameCriteria :
        (Given(pc[1]) /\ result.args[pc[1]] # Some("All")) => v[pc[2]] = result.args[pc[1]]

MeetsVisited(v) == Given("visited") => v.visited = result.args.visited[1]

MeetsInterest(v) == Given("interest_status") => v.interest_status = result.args.interest_status

\* omitted: only 'OPERATIONAL'; None: any status; a value: that status
MeetsStatus(v) ==
    IF "business_status" \notin DOMAIN result.args
    THEN v.business_status = Some("OPERATIONAL")
    ELSE result.args.business_status # None
             => v.business_status = result.args.business_status

\* a positive min_rating: a rating that is present and at least min_rating
MeetsRating(v) ==
    (Given("min_rating") /\ result.args.min_rating[1] > 0)
        => (v.google_rating # None /\ v.google_rating[1] >= result.args.min_rating[1])

Without(args, p) == [q \in DOMAIN args \ {p} |-> args[q]]

\* C5: filter_venues returns exactly the venues that meet every supplied
\* criterion, and passing "All" for ward, postcode_sector, amenity or
\* cuisine gives the result of leaving that criterion out.
C5_FilterIsConjunction ==
    result.op = "filter_venues" =>
        /\ result.returned =
               SelectSeq(venues, LAMBDA v : /\ MeetsNames(v) /\ MeetsVisited(v)
                                            /\ MeetsInterest(v) /\ MeetsStatus(v)
                                            /\ MeetsRating(v))
        /\ \A pc \in NameCriteria :
               (pc[1] \in DOMAIN result.args /\ result.args[pc[1]] = Some("All"))
                   => result.returned = filter_venues(venues, Without(result.args, pc[1]))

\* a call with two criteria that a venue of the table meets and another
\* venue meets only one of, and with "All" for a third
C5_Witness ==
    /\ result.op = "filter_venues"
    /\ Given("ward") /\ result.args.ward = Some("Clifton")
    /\ Given("amenity") /\ result.args.amenity = Some("cafe")
    /\ Given("cuisine") /\ result.args.cuisine = Some("All")
    /\ Len(venues) = 2
    /\ Len(result.returned) = 1
    /\ \E i \in DOMAIN venues :
           /\ venues[i].search_ward = Some("Clifton")
           /\ venues[i].amenity # Some("cafe")
           /\ venues[i].business_status = Some("OPERATIONAL")

\* C6: with business_status omitted only 'OPERATIONAL' venues are returned,
\* with business_status None venues of every status are, with a value only
\* the venues of that status.
C6_BusinessStatusTriState ==
    result.op = "filter_venues" =>
        LET eligible == SelectSeq(venues, LAMBDA v : /\ MeetsNames(v) /\ MeetsVisited(v)
                                                     /\ MeetsInterest(v) /\ MeetsRating(v))
            status == result.args.business_status
        IN  IF "business_status" \notin DOMAIN result.args
            THEN result.returned =
                     SelectSeq(eligible, LAMBDA v : v.business_status = Some("OPERATIONAL"))
            ELSE IF status = None
            THEN result.returned = eligible
            ELSE result.returned = SelectSeq(eligible, LAMBDA v : v.business_status = status)

\* business_status = None was passed and a closed venue and a venue of
\* unknown status are returned
C6_Witness ==
    /\ result.op = "filter_venues"
    /\ "business_status" \in DOMAIN result.args
    /\ result.args.business_status = None
    /\ \E i \in DOMAIN result.returned :
           result.returned[i].business_status = Some("CLOSED_PERMANENTLY")
    /\ \E i \in DOMAIN result.returned : result.returned[i].business_status = None

\* C7: without min_rating or with min_rating 0 the rating is no criterion
\* (venues without a rating are returned); with a positive min_rating the
\* venues returned are those with a rating >= min_rating.
C7_MinRating ==
    result.op = "filter_venues" =>
        LET eligible == SelectSeq(venues, LAMBDA v : /\ MeetsNames(v) /\ MeetsVisited(v)
                                                     /\ MeetsInterest(v) /\ MeetsStatus(v))
        IN  IF Given("min_rating") /\ result.args.min_rating[1] > 0
            THEN result.returned =
                     SelectSeq(eligible,
                               LAMBDA v : /\ v.google_rating # None
                                          /\ v.google_rating[1] >= result.args.min_rating[1])
            ELSE result.returned = eligible

\* min_rating 4.5 alone: the venue rated 4.5 is returned, the operational
\* venue without a rating is not
C7_Witness ==
    /\ result.op = "filter_venues"
    /\ DOMAIN result.args = {"min_rating"}
    /\ result.args.min_rating = Some(45)
    /\ \E i \in DOMAIN result.returned : result.returned[i].google_rating = Some(45)
    /\ \E i \in DOMAIN venues :
           /\ venues[i].google_rating = None
           /\ venues[i].business_status = Some("OPERATIONAL")
           /\ \A j \in DOMAIN result.returned : result.returned[j] # venues[i]

----------------------------------------------------------------------------
(* Claims about the statistics *)

NumberVisited == Cardinality({i \in DOMAIN venues : venues[i].visited})

NumberInterested ==
    Cardinality({i \in DOMAIN venues : venues[i].interest_status = Some("interested")})

\* C8 (under Spec): total = visited + not_visited, total is the number of
\* all records and visited the number of records with visited = true.
C8_TotalIsVisitedPlusNot ==
    result.op = "get_statistics" =>
        /\ result.returned.total = result.returned.visited + result.returned.not_visited
        /\ result.returned.total = Len(venues)
        /\ result.returned.visited = NumberVisited

\* statistics of a table with a closed venue and one visited venue
C8_Witness ==
    /\ result.op = "get_statistics"
    /\ Len(venues) = 2
    /\ \E i \in DOMAIN venues : venues[i].business_status = Some("CLOSED_PERMANENTLY")
    /\ result.returned.visited = 1
    /\ result.returned.not_visited = 1

\* C9 (under StatsSpec): no division error; conversion_rate is 0 when no
\* venue is visited and interested / visited * 100 otherwise.
C9_ConversionRate ==
    result.op = "get_statistics" =>
        LET visited == NumberVisited
            interested == NumberInterested
            rate == result.returned.conversion_rate
        IN  /\ rate.raised = ""
            /\ rate.den > 0
            /\ visited = 0 => rate.num = 0
            /\ visited > 0 => rate.num * visited = interested * 100 * rate.den

\* statistics of a table with a venue marked interested and no visited venue
C9_Witness ==
    /\ result.op = "get_statistics"
    /\ result.returned.visited = 0
    /\ result.returned.interested > 0

\* C10 (under StatsSpec): one row per distinct search_ward (NULL included),
\* with the counts of that ward, ordered by total non-increasing.
C10_WardStatistics ==
    result.op = "get_ward_statistics" =>
        LET rows == result.returned
            wards == {venues[i].search_ward : i \in DOMAIN venues}
            InWard(w, P(_)) ==
                Cardinality({i \in DOMAIN venues : venues[i].search_ward = w /\ P(venues[i])})
        IN  /\ Len(rows) = Cardinality(wards)
            /\ {rows[k].search_ward : k \in DOMAIN rows} = wards
            /\ \A k \in DOMAIN rows :
                   LET w == rows[k].search_ward IN
                   /\ rows[k].total = InWard(w, LAMBDA v : TRUE)
                   /\ rows[k].visited = InWard(w, LAMBDA v : v.visited)
                   /\ rows[k].interested =
                          InWard(w, LAMBDA v : v.interest_status = Some("interested"))
                   /\ rows[k].not_interested =
                          InWard(w, LAMBDA v : v.interest_status = Some("not_interested"))
            /\ \A k \in 1..(Len(rows) - 1) : rows[k].total >= rows[k + 1].total

\* ward statistics of a table with two venues of one ward and one venue
\* without a ward
C10_Witness ==
    /\ result.op = "get_ward_statistics"
    /\ Len(result.returned) = 2
    /\ result.returned[1].total = 2
    /\ result.returned[1].visited = 1
    /\ result.returned[2].search_ward = None
    /\ result.returned[2].total = 1

RECURSIVE SumOf(_, _)
SumOf(rows, column) ==
    IF rows = <<>> THEN 0 ELSE Head(rows)[column] + SumOf(Tail(rows), column)

\* C11 (under StatsSpec): the totals of the rows of get_ward_statistics, the
\* row of the venues without a ward included, add up to the total of
\* get_statistics, and their visited counts to its visited.
C11_WardRowsSumToStatistics ==
    result.op = "get_ward_statistics" =>
        /\ SumOf(result.returned, "total") = get_statistics(venues).total
        /\ SumOf(result.returned, "visited") = get_statistics(venues).visited

\* ward statistics of three venues in three groups, the visited one among
\* the venues without a ward
C11_Witness ==
    /\ result.op = "get_ward_statistics"
    /\ Len(venues) = 3
    /\ Len(result.returned) = 3
    /\ \E k \in DOMAIN result.returned :
           result.returned[k].search_ward = None /\ result.returned[k].visited = 1
    /\ get_statistics(venues).visited = 1

----------------------------------------------------------------------------
(* Claims about what import_from_csv creates, checked under Spec *)

\* the rows that the recorded import has added to the table
Imported == (Len(result.before) + 1)..Len(venues)

\* C12: every venue that import_from_csv has created has visited = false,
\* visit_date, interest_status and notes null and is_priority = false,
\* whatever the row holds in the columns of those names.
C12_ImportedSurveyDefaults ==
    result.op = "import_from_csv" =>
        \A i \in Imported :
            /\ venues[i].visited = FALSE
            /\ venues[i].visit_date = None
            /\ venues[i].interest_status = None
            /\ venues[i].is_priority = FALSE
            /\ venues[i].notes = None

\* an import has created a venue from a row whose survey columns are filled
C12_Witness ==
    /\ result.op = "import_from_csv"
    /\ \E k \in DOMAIN result.df, i \in Imported :
           /\ result.df[k].visited = Bool(TRUE)
           /\ result.df[k].interest_status = Str("interested")
           /\ result.df[k].google_place_id = Str("ChIJ-1")
           /\ venues[i].google_place_id = Some("ChIJ-1")

\* row k of the recorded file raises in Venue(...)
RowRaises(k) == result.df[k].google_rating.kind = "str"

\* the identity keys in the table when row k is looked up: those of the table
\* before the import and those of the earlier rows that did not raise
KeysAt(k) ==
    {result.before[i].google_place_id : i \in DOMAIN result.before}
        \cup {bind(result.df[j].google_place_id) : j \in {h \in 1..(k - 1) : ~RowRaises(h)}}

\* row k is skipped as a duplicate
RowDuplicate(k) ==
    LET cell == result.df[k].google_place_id IN
    IF cell.kind = "none" THEN None \in KeysAt(k)
    ELSE cell.kind # "nan" /\ Some(cell.val) \in KeysAt(k)

\* C13: a row that raises adds one to the error counter and no venue, and
\* the import goes on: every row that neither raises nor is a duplicate is
\* imported and counted, before or after a row that raised.
C13_RowErrorIsolation ==
    result.op = "import_from_csv" =>
        LET rows == DOMAIN result.df
            raised == {k \in rows : RowRaises(k) /\ ~RowDuplicate(k)}
            valid == {k \in rows : ~RowRaises(k) /\ ~RowDuplicate(k)}
            FromRow(i, k) ==
                /\ venues[i].google_place_id = bind(result.df[k].google_place_id)
                /\ venues[i].search_ward = bind(result.df[k].search_ward)
                /\ venues[i].business_status = bind(result.df[k].business_status)
        IN  /\ result.errors = Cardinality(raised)
            /\ result.count = Cardinality(valid)
            /\ Len(venues) = Len(result.before) + result.count
            /\ SubSeq(venues, 1, Len(result.before)) = result.before
            /\ \A k \in valid : \E i \in Imported : FromRow(i, k)
            /\ \A i \in Imported : \E k \in valid : FromRow(i, k)

\* an import whose first row raised and whose second row was imported
C13_Witness ==
    /\ result.op = "import_from_csv"
    /\ Len(result.df) = 2
    /\ RowRaises(1) /\ ~RowRaises(2)
    /\ result.errors = 1
    /\ result.count = 1
    /\ Len(venues) = Len(result.before) + 1

----------------------------------------------------------------------------
(* Claims about the survey fields, checked under AppSpec *)

\* C14: after any sequence of imports, saves of the Mark-as-Visited form,
\* updates of the Edit-Status form and resets, a venue has a visit_date
\* exactly when it is visited.
C14_VisitDateIffVisited ==
    \A i \in DOMAIN venues : (venues[i].visit_date # None) <=> venues[i].visited

\* the Edit-Status form has updated one of two venues, which is visited and
\* dated, next to a venue that is neither
C14_Witness ==
    /\ result.op = "update_edit_status"
    /\ Len(venues) = 2
    /\ \E i, j \in DOMAIN venues :
           /\ venues[i].id = result.venue_id
           /\ venues[i].visited /\ venues[i].visit_date # None
           /\ venues[i].interest_status = Some("not_interested")
           /\ ~venues[j].visited /\ venues[j].visit_date = None

\* C15: after any sequence of imports, uses of the two forms (opened,
\* cancelled, saved) and resets, a venue whose interest_status is
\* 'interested' or 'not_interested' is visited.
C15_InterestOnlyWhenVisited ==
    \A i \in DOMAIN venues :
        venues[i].interest_status \in {Some("interested"), Some("not_interested")}
            => venues[i].visited

\* C18: no operation of the application removes a venue id; a new id appears
\* only by import_from_csv, is greater than every id there was, and the ids
\* of the table increase in the order of insertion.
C18_RecordLifecycle ==
    [][/\ Ids(venues) \subseteq Ids(venues')
       /\ Ids(venues') # Ids(venues) => result'.op = "import_from_csv"
       /\ \A new \in Ids(venues') \ Ids(venues) : \A old \in Ids(venues) : new > old
       /\ \A i, j \in DOMAIN venues' : i < j => venues'[i].id < venues'[j].id]_vars

\* a second import has added a venue to a table whose venue had been marked
\* visited and reset
C18_Witness ==
    /\ result.op = "import_from_csv"
    /\ Len(result.before) = 1
    /\ result.before[1].updated_at = 0
    /\ result.before[1].notes = None
    /\ session_state = {<<"editing", 1>>}
    /\ Ids(venues) = {1, 2}

----------------------------------------------------------------------------
(* Claims about the identity key and the timestamps, checked under Spec *)

\* C16: no step changes the google_place_id that a venue has got at import.
C16_IdentityImmutable ==
    [][\A i \in DOMAIN venues :
           (venues[i].google_place_id # None /\ i \in DOMAIN venues')
               => venues'[i].google_place_id = venues[i].google_place_id]_vars

----------------------------------------------------------------------------
(* Claims about the Export page, checked under ExportSpec *)

\* C19: an export of no venues gives a file to download that holds the
\* header row and no other row.
C19_EmptyExportHeaderOnly ==
    (result.op = "export" /\ result.export_venues = <<>>)
        => /\ result.download # None
           /\ result.download[1].header = ExportHeader
           /\ result.download[1].rows = <<>>

\* The Address, Phone or Website column of row k of the file, given the
\* venue's values of the two sources: the value `first` when there is one,
\* else the value `second`, and empty only when both are missing
Prefers(column, first, second) ==
    /\ first # None => column = first
    /\ (first = None /\ second # None) => column = second
    /\ column = None <=> (first = None /\ second = None)

\* C20 as claimed: the locally curated value (address, phone, website) when
\* there is one, the externally sourced value (google_vicinity, google_phone,
\* google_website) only otherwise.
C20_ExportPrefersLocal ==
    (result.op = "export" /\ result.download # None) =>
        \A k \in DOMAIN result.export_venues :
            LET v == result.export_venues[k]
                row == result.download[1].rows[k]
            IN  /\ Prefers(row.Address, v.address, v.google_vicinity)
                /\ Prefers(row.Phone, v.phone, v.google_phone)
                /\ Prefers(row.Website, v.website, v.google_website)

\* C20 as amended: the externally sourced value when there is one, the
\* locally curated value only otherwise.
C20_ExportPrefersGoogle ==
    (result.op = "export" /\ result.download # None) =>
        /\ Len(result.download[1].rows) = Len(result.export_venues)
        /\ \A k \in DOMAIN result.export_venues :
               LET v == result.export_venues[k]
                   row == result.download[1].rows[k]
               IN  /\ Prefers(row.Address, v.google_vicinity, v.address)
                   /\ Prefers(row.Phone, v.google_phone, v.phone)
                   /\ Prefers(row.Website, v.google_website, v.website)

\* an exported venue with both addresses, only a local phone and no website
C20_Witness ==
    /\ result.op = "export"
    /\ result.download # None
    /\ \E k \in DOMAIN result.export_venues :
           LET v == result.export_venues[k]
               row == result.download[1].rows[k]
           IN  /\ v.google_vicinity # None /\ v.address # None
               /\ v.google_phone = None /\ v.phone # None
               /\ v.google_website = None /\ v.website = None
               /\ row.Address = v.google_vicinity
               /\ row.Phone = v.phone
               /\ row.Website = None

----------------------------------------------------------------------------
(* Claim about calculate_distance, checked under DistanceSpec *)

\* C21: the distance of a point to itself is 0 whenever latitude and
\* longitude are present, 0 degrees included, and the function returns null
\* only when an input is missing.
C21_DistanceToSelfIsZero ==
    result.op = "calculate_distance" =>
        LET missing == None \in {result.lat1, result.lon1, result.lat2, result.lon2} IN
        /\ (~missing /\ result.lat1 = result.lat2 /\ result.lon1 = result.lon2)
               => result.returned = Some(0)
        /\ result.returned = None => missing

----------------------------------------------------------------------------
(* Claims about Reset All Survey Data and the counters of the import *)

SurveyFields == {"visited", "visit_date", "interest_status", "is_priority", "notes"}

\* C22 (under AppSpec): Reset All Survey Data leaves every venue not
\* visited, without visit_date, interest_status and notes and without
\* priority; it keeps the records and, but for updated_at, their other
\* fields; get_statistics then counts no venue as visited, interested or not
\* interested, and as many venues as before.
C22_ResetClearsSurveyOnly ==
    [][result'.op = "reset_all_survey_data" =>
          /\ DOMAIN venues' = DOMAIN venues
          /\ \A i \in DOMAIN venues :
                 /\ venues'[i].visited = FALSE
                 /\ venues'[i].visit_date = None
                 /\ venues'[i].interest_status = None
                 /\ venues'[i].is_priority = FALSE
                 /\ venues'[i].notes = None
                 /\ \A c \in Columns \ (SurveyFields \cup {"updated_at"}) :
                        venues'[i][c] = venues[i][c]
          /\ get_statistics(venues').visited = 0
          /\ get_statistics(venues').interested = 0
          /\ get_statistics(venues').not_interested = 0
          /\ get_statistics(venues').total = get_statistics(venues).total]_vars

\* the reset has run on two venues, both of which had been visited (their
\* Edit-Status forms are still open)
C22_Witness ==
    /\ result.op = "reset_all_survey_data"
    /\ Len(venues) = 2
    /\ session_state = {<<"editing", 1>>, <<"editing", 2>>}
    /\ \A i \in DOMAIN venues : ~venues[i].visited /\ venues[i].interest_status = None

\* C23 (under Spec): of the rows of the file, each is imported, skipped as
\* existing or counted as an error: the two counters and the number of
\* skipped rows add up to the number of rows, and the table has grown by
\* the number of imported rows.
C23_ImportAccounting ==
    result.op = "import_from_csv" =>
        LET skipped == {k \in DOMAIN result.df : RowDuplicate(k)} IN
        /\ result.count >= 0 /\ result.errors >= 0
        /\ result.count + result.errors + Cardinality(skipped) = Len(result.df)
        /\ Len(venues) = Len(result.before) + result.count

\* an import of two rows into a table with venues: one row raised, the
\* other was skipped as existing, none was imported
C23_Witness ==
    /\ result.op = "import_from_csv"
    /\ Len(result.df) = 2
    /\ result.before # <<>>
    /\ result.errors = 1
    /\ result.count = 0
    /\ \E k \in DOMAIN result.df : RowDuplicate(k) /\ ~RowRaises(k)
    /\ venues = result.before

====
